---- MODULE Spec2Model ----
(***************************************************************************)
(* A model of load_confounds.py: the selection of fMRIprep confound        *)
(* columns by a Confounds object.  Column names and file paths are TLA+    *)
(* strings, handled character by character as the Python code does         *)
(* (concatenation, substring search, zero padding, sorting).  A data       *)
(* frame is modelled by its column sequence, its number of rows and the    *)
(* cells that hold a missing value; the numeric values themselves play no  *)
(* part in column selection.                                               *)
(***************************************************************************)
EXTENDS Integers, Sequences, FiniteSets, TLC

VARIABLES
    obj,          \* the Confounds object bound to the name conf, or NoObj
    confounds_,   \* the attribute conf.confounds_, NoValue while it is not set
    ret,          \* the last call on conf: its argument and what it returned or raised
    touched,      \* the inputs that have been handed to _load_single so far
    call          \* a call of a module-level function: its arguments and its result

vars == <<obj, confounds_, ret, touched, call>>

-----------------------------------------------------------------------------
(* Bounds of the model.                                                    *)

\* longest strategy list enumerated exhaustively
MaxStrategyLen == 2
\* longest list of inputs given to load
MaxInputs == 2
\* largest n_compcor besides the constructor's default
MaxNCompcor == 2
\* largest n_motion
MaxNMotion == 1
\* longest list of base names given to _add_suffix
MaxLen == 3
\* largest component index a generated compcor table may hold
MaxIndex == 3

\* n_compcor=6 in the signature of Confounds._init_
DefaultNCompcor == 6

-----------------------------------------------------------------------------
(* Generic helpers.                                                        *)

Range(s) == {s[i] : i \in DOMAIN s}

SeqsUpTo(S, n) == UNION {[1..k -> S] : k \in 0..n}

Max(a, b) == IF a >= b THEN a ELSE b

Min(a, b) == IF a <= b THEN a ELSE b

\* Python's `key in col` on two strings
IsSubstring(key, col) ==
    \E i \in 1..(Len(col) - Len(key) + 1) : SubSeq(col, i, i + Len(key) - 1) = key

\* Python's `par in confounds_raw.columns`
InColumns(par, df) == \E i \in DOMAIN df.columns : df.columns[i] = par

\* str.zfill(width)
RECURSIVE zfill(_, _)
zfill(s, width) == IF Len(s) >= width THEN s ELSE zfill("0" \o s, width)

\* the order of Python's string comparison on the characters a column name
\* of this program can start with or differ in
CharRank(c) ==
    CASE c = "0" -> 0 [] c = "1" -> 1 [] c = "2" -> 2 [] c = "3" -> 3
      [] c = "4" -> 4 [] c = "5" -> 5 [] c = "6" -> 6 [] c = "7" -> 7
      [] c = "8" -> 8 [] c = "9" -> 9 [] c = "_" -> 10 [] c = "a" -> 11
      [] c = "c" -> 12 [] c = "m" -> 13 [] c = "o" -> 14 [] c = "p" -> 15
      [] c = "r" -> 16 [] c = "t" -> 17 [] OTHER -> 18

RECURSIVE StrLess(_, _)
StrLess(s, t) ==
    IF Len(t) = 0 THEN FALSE
    ELSE IF Len(s) = 0 THEN TRUE
    ELSE LET a == CharRank(SubSeq(s, 1, 1))
             b == CharRank(SubSeq(t, 1, 1))
         IN  IF a # b THEN a < b
             ELSE StrLess(SubSeq(s, 2, Len(s)), SubSeq(t, 2, Len(t)))

\* list.sort() on a list of strings, as an insertion sort (stable)
RECURSIVE Insert(_, _)
Insert(sorted, x) ==
    IF sorted = <<>> THEN <<x>>
    ELSE IF StrLess(x, sorted[Len(sorted)])
         THEN Append(Insert(SubSeq(sorted, 1, Len(sorted) - 1), x), sorted[Len(sorted)])
         ELSE Append(sorted, x)

RECURSIVE Sort(_)
Sort(s) == IF s = <<>> THEN <<>> ELSE Insert(Sort(SubSeq(s, 1, Len(s) - 1)), s[Len(s)])

-----------------------------------------------------------------------------
(* Data frames, and the results of the functions: a value or a raised      *)
(* exception.                                                              *)

\* a data frame: column names in order, number of rows, and the cells
\* <<row, column>> that hold a missing value
DataFrame(columns, nrows, missing) ==
    [columns |-> columns, nrows |-> nrows, missing |-> missing]

\* pd.DataFrame()
EmptyFrame == DataFrame(<<>>, 0, {})

\* confounds_raw[params]: the named columns, in the order of params
Select(df, params) ==
    DataFrame(params, df.nrows,
              {cell \in df.missing : \E i \in DOMAIN params : params[i] = cell[2]})

\* pd.concat([left, right], axis=1): the columns of left then those of
\* right, on the union of the two row indexes (both count from 0)
Padding(df, nrows) == {<<r, df.columns[i]>> : r \in (df.nrows + 1)..nrows, i \in DOMAIN df.columns}

Concat(left, right) ==
    LET nrows == Max(left.nrows, right.nrows)
    IN  DataFrame(left.columns \o right.columns, nrows,
                  left.missing \cup right.missing
                      \cup Padding(left, nrows) \cup Padding(right, nrows))

\* a returned data frame
Ok(df) == [ok |-> TRUE, value |-> df, error |-> "", detail |-> ""]

\* an exception raised where a data frame would have been returned
Raise(exc, detail) == [ok |-> FALSE, value |-> EmptyFrame, error |-> exc, detail |-> detail]

-----------------------------------------------------------------------------
(* The functions of the module, in the order of the source.                *)

all_confounds == <<"motion", "high_pass", "wm_csf", "global", "compcor">>

\* the names one pass of the loop of _add_suffix appends for par
SuffixesOf(par, model) ==
    (IF model = "derivatives" \/ model = "full" THEN <<par \o "_derivative1">> ELSE <<>>)
    \o (IF model = "power2" \/ model = "full" THEN <<par \o "_power2">> ELSE <<>>)
    \o (IF model = "full" THEN <<par \o "_derivative1_power2">> ELSE <<>>)

RECURSIVE AddSuffixFrom(_, _, _, _)
AddSuffixFrom(params_full, params, i, model) ==
    IF i > Len(params) THEN params_full
    ELSE AddSuffixFrom(params_full \o SuffixesOf(params[i], model), params, i + 1, model)

\* _add_suffix were it to append suffix by suffix instead of base by base
_add_suffix_by_suffix(params, model) ==
    params
    \o (IF model = "derivatives" \/ model = "full"
        THEN [i \in DOMAIN params |-> params[i] \o "_derivative1"] ELSE <<>>)
    \o (IF model = "power2" \/ model = "full"
        THEN [i \in DOMAIN params |-> params[i] \o "_power2"] ELSE <<>>)
    \o (IF model = "full"
        THEN [i \in DOMAIN params |-> params[i] \o "_derivative1_power2"] ELSE <<>>)

_add_suffix(params, model) == AddSuffixFrom(params, params, 1, model)

\* the first parameter that is not a column, 0 when all are
FirstMissing(df, params) ==
    IF \A i \in DOMAIN params : InColumns(params[i], df) THEN 0
    ELSE CHOOSE i \in DOMAIN params :
            /\ ~InColumns(params[i], df)
            /\ \A j \in 1..(i - 1) : InColumns(params[j], df)

_check_params(df, params) ==
    LET i == FirstMissing(df, params)
    IN  IF i = 0 THEN Ok(EmptyFrame) ELSE Raise("ValueError", params[i])

\* the columns of the frame that contain key, in the order of the frame
RECURSIVE ColumnsWith(_, _, _)
ColumnsWith(df, key, i) ==
    IF i > Len(df.columns) THEN <<>>
    ELSE (IF IsSubstring(key, df.columns[i]) THEN <<df.columns[i]>> ELSE <<>>)
         \o ColumnsWith(df, key, i + 1)

\* _find_confounds: the list found, or the key that matched nothing
RECURSIVE _find_confounds_from(_, _, _)
_find_confounds_from(df, keywords, k) ==
    IF k > Len(keywords) THEN [ok |-> TRUE, list |-> <<>>, error |-> "", detail |-> ""]
    ELSE LET found == ColumnsWith(df, keywords[k], 1)
             rest  == _find_confounds_from(df, keywords, k + 1)
         IN  IF found = <<>>
             THEN [ok |-> FALSE, list |-> <<>>, error |-> "ValueError", detail |-> keywords[k]]
             ELSE IF rest.ok THEN [rest EXCEPT !.list = found \o rest.list] ELSE rest

_find_confounds(df, keywords) == _find_confounds_from(df, keywords, 1)

_load_global(df, global_signal) ==
    LET global_params == _add_suffix(<<"global_signal">>, global_signal)
        checked == _check_params(df, global_params)
    IN  IF checked.ok THEN Ok(Select(df, global_params)) ELSE checked

\* _load_wm_csf were its list of base names to hold global_signal too
_load_wm_csf_with_global(df, wm_csf) ==
    LET wm_csf_params == _add_suffix(<<"csf", "white_matter", "global_signal">>, wm_csf)
        checked == _check_params(df, wm_csf_params)
    IN  IF checked.ok THEN Ok(Select(df, wm_csf_params)) ELSE checked

_load_wm_csf(df, wm_csf) ==
    LET wm_csf_params == _add_suffix(<<"csf", "white_matter">>, wm_csf)
        checked == _check_params(df, wm_csf_params)
    IN  IF checked.ok THEN Ok(Select(df, wm_csf_params)) ELSE checked

_load_high_pass(df) ==
    LET high_pass_params == _find_confounds(df, <<"cosine">>)
    IN  IF high_pass_params.ok THEN Ok(Select(df, high_pass_params.list))
        ELSE Raise(high_pass_params.error, high_pass_params.detail)

\* the candidate column of index nn
CompcorCol(compcor_suffix, nn) == compcor_suffix \o "_comp_cor_" \o zfill(ToString(nn), 2)

\* _label_compcor from index nn on: the columns found and the candidates
\* warned about, both in the order of the loop
RECURSIVE _label_compcor_from(_, _, _, _)
_label_compcor_from(df, compcor_suffix, n_compcor, nn) ==
    IF nn >= n_compcor + 1 THEN [cols |-> <<>>, warned |-> <<>>]
    ELSE LET compcor_col == CompcorCol(compcor_suffix, nn)
             rest == _label_compcor_from(df, compcor_suffix, n_compcor, nn + 1)
         IN  IF ~InColumns(compcor_col, df)
             THEN [rest EXCEPT !.warned = <<compcor_col>> \o rest.warned]
             ELSE [rest EXCEPT !.cols = <<compcor_col>> \o rest.cols]

\* _label_compcor were its loop range(n_compcor)
_label_compcor_exclusive(df, compcor_suffix, n_compcor) ==
    _label_compcor_from(df, compcor_suffix, n_compcor - 1, 0)

_label_compcor(df, compcor_suffix, n_compcor) ==
    _label_compcor_from(df, compcor_suffix, n_compcor, 0)

_load_compcor(df, compcor, n_compcor) ==
    IF compcor \notin {"anat", "temp", "full"}
    THEN Raise("UnboundLocalError", "compcor_cols")
    ELSE LET labelled ==
                 CASE compcor = "anat" -> _label_compcor(df, "a", n_compcor).cols
                   [] compcor = "temp" -> _label_compcor(df, "t", n_compcor).cols
                   [] compcor = "full" -> _label_compcor(df, "a", n_compcor).cols
                                          \o _label_compcor(df, "t", n_compcor).cols
             compcor_cols == Sort(labelled)
             checked == _check_params(df, compcor_cols)
         IN  IF checked.ok THEN Ok(Select(df, compcor_cols)) ELSE checked

\* the rows DataFrame.dropna() keeps
CompleteRows(df) ==
    {r \in 1..df.nrows : \A i \in DOMAIN df.columns : <<r, df.columns[i]>> \notin df.missing}

\* _pca_motion.  StandardScaler refuses a frame without rows, and PCA a
\* number of components above min(rows, columns); the frame returned has
\* a fresh index over the rows kept
_pca_motion(confounds_motion, n_components) ==
    LET n_samples  == Cardinality(CompleteRows(confounds_motion))
        n_features == Len(confounds_motion.columns)
    IN  IF n_samples = 0 THEN Raise("ValueError", "StandardScaler")
        ELSE IF n_components > Min(n_samples, n_features) THEN Raise("ValueError", "PCA")
        ELSE Ok(DataFrame([col \in 1..n_components |-> "motion_pca_" \o ToString(col)],
                          n_samples, {}))

_load_motion(df, motion, n_motion) ==
    LET motion_params ==
            _add_suffix(<<"trans_x", "trans_y", "trans_z", "rot_x", "rot_y", "rot_z">>, motion)
        checked == _check_params(df, motion_params)
        confounds_motion == Select(df, motion_params)
    IN  IF ~checked.ok THEN checked
        ELSE IF n_motion > 0 THEN _pca_motion(confounds_motion, n_motion)
        ELSE Ok(confounds_motion)

\* a strategy argument: its Python type and, for a list, its items
StrategyArg(type, items) == [type |-> type, items |-> items]

\* the first item that is not a supported type of confounds, 0 when none
FirstUnsupported(items) ==
    IF \A i \in DOMAIN items : items[i] \in Range(all_confounds) THEN 0
    ELSE CHOOSE i \in DOMAIN items :
            /\ items[i] \notin Range(all_confounds)
            /\ \A j \in 1..(i - 1) : items[j] \in Range(all_confounds)

\* _sanitize_strategy were it to look at the first item only
_sanitize_strategy_first_item(strategy) ==
    IF strategy.type = "list"
    THEN IF strategy.items = <<>> \/ strategy.items[1] \in Range(all_confounds)
         THEN [ok |-> TRUE, error |-> "", detail |-> ""]
         ELSE [ok |-> FALSE, error |-> "ValueError", detail |-> strategy.items[1]]
    ELSE [ok |-> FALSE, error |-> "ValueError", detail |-> "strategy needs to be a list of strings"]

_sanitize_strategy(strategy) ==
    IF strategy.type = "list"
    THEN LET i == FirstUnsupported(strategy.items)
         IN  IF i = 0 THEN [ok |-> TRUE, error |-> "", detail |-> ""]
             ELSE [ok |-> FALSE, error |-> "ValueError", detail |-> strategy.items[i]]
    ELSE [ok |-> FALSE, error |-> "ValueError", detail |-> "strategy needs to be a list of strings"]

\* str.find, counting from 1; 0 when key does not occur
Find(key, s) ==
    IF IsSubstring(key, s)
    THEN CHOOSE i \in 1..Len(s) :
            /\ SubSeq(s, i, i + Len(key) - 1) = key
            /\ \A j \in 1..(i - 1) : SubSeq(s, j, j + Len(key) - 1) # key
    ELSE 0

\* s.split(key)[1]: the text between the first and the second key
SplitSecond(s, key) ==
    LET rest == SubSeq(s, Find(key, s) + Len(key), Len(s))
    IN  IF Find(key, rest) = 0 THEN rest ELSE SubSeq(rest, 1, Find(key, rest) - 1)

\* str.replace(old, new)
RECURSIVE Replace(_, _, _)
Replace(s, old, new) ==
    LET i == Find(old, s)
    IN  IF i = 0 THEN s
        ELSE SubSeq(s, 1, i - 1) \o new \o Replace(SubSeq(s, i + Len(old), Len(s)), old, new)

\* s[-6:]
Tail6(s) == SubSeq(s, Max(1, Len(s) - 5), Len(s))

\* the name of the confounds file that _confounds2df reads for a path
ConfoundsPath(path) ==
    IF IsSubstring("nii", Tail6(path))
    THEN Replace(path, "_space-" \o SplitSecond(path, "space-"), "_desc-confounds_regressors.tsv")
    ELSE path

-----------------------------------------------------------------------------
(* The raw confounds the model loads: a data frame held in memory and a   *)
(* file on disk, with the column names fMRIprep writes.                    *)

\* a complete fMRIprep table of three volumes; the derivative columns have
\* no value in the first volume
FullColumns ==
    <<"global_signal", "global_signal_derivative1", "global_signal_derivative1_power2",
      "global_signal_power2", "csf", "csf_derivative1", "csf_power2",
      "csf_derivative1_power2", "white_matter", "white_matter_derivative1",
      "white_matter_derivative1_power2", "white_matter_power2",
      "std_dvars", "framewise_displacement",
      "t_comp_cor_00", "t_comp_cor_01", "t_comp_cor_02", "t_comp_cor_03",
      "t_comp_cor_04", "t_comp_cor_05", "t_comp_cor_06", "t_comp_cor_07",
      "a_comp_cor_00", "a_comp_cor_01", "a_comp_cor_02", "a_comp_cor_03",
      "a_comp_cor_04", "a_comp_cor_05", "a_comp_cor_06", "a_comp_cor_07",
      "cosine00", "cosine01", "non_steady_state_outlier00",
      "trans_x", "trans_x_derivative1", "trans_x_derivative1_power2", "trans_x_power2",
      "trans_y", "trans_y_derivative1", "trans_y_power2", "trans_y_derivative1_power2",
      "trans_z", "trans_z_derivative1", "trans_z_derivative1_power2", "trans_z_power2",
      "rot_x", "rot_x_derivative1", "rot_x_derivative1_power2", "rot_x_power2",
      "rot_y", "rot_y_derivative1", "rot_y_power2", "rot_y_derivative1_power2",
      "rot_z", "rot_z_derivative1", "rot_z_derivative1_power2", "rot_z_power2">>

TableFull ==
    DataFrame(FullColumns, 3,
              {<<1, FullColumns[i]>> : i \in {j \in DOMAIN FullColumns :
                                                IsSubstring("derivative1", FullColumns[j])}})

\* a reduced table of two volumes: the basic parameters only, four
\* anatomical components, temporal components with a gap, no cosine and
\* no global signal, and one value missing
TableFile ==
    DataFrame(<<"csf", "white_matter", "framewise_displacement",
                "a_comp_cor_00", "a_comp_cor_01", "a_comp_cor_02", "a_comp_cor_03",
                "t_comp_cor_02", "t_comp_cor_00",
                "trans_x", "trans_y", "trans_z", "rot_x", "rot_y", "rot_z">>,
              2, {<<2, "rot_z">>})

\* the data frame bound to a Python name
Frame(name) == IF name = "confounds_df" THEN TableFull ELSE EmptyFrame

NiiPath == "sub-01_task-rest_space-MNI152_desc-preproc_bold.nii.gz"

TsvPath == "sub-01_task-rest_desc-confounds_regressors.tsv"

\* pd.read_csv on the files of the model
read_csv(path) ==
    IF path = TsvPath THEN Ok(TableFile) ELSE Raise("FileNotFoundError", path)

\* one input of load: a data frame, given by the name it is bound to, or
\* the path of a file
FrameInput(name) == [type |-> "DataFrame", ref |-> name]

PathInput(path) == [type |-> "str", ref |-> path]

_confounds2df(confounds_raw) ==
    IF confounds_raw.type = "DataFrame" THEN Ok(Frame(confounds_raw.ref))
    ELSE IF IsSubstring("nii", Tail6(confounds_raw.ref))
            /\ ~IsSubstring("space-", confounds_raw.ref)
         THEN Raise("IndexError", confounds_raw.ref)
         ELSE read_csv(ConfoundsPath(confounds_raw.ref))

\* the argument of load: one input, or a list of inputs
SingleArg(input) == [type |-> input.type, single |-> input, list |-> <<>>]

ListArg(inputs) == [type |-> "list", single |-> PathInput(""), list |-> inputs]

\* _sanitize_confounds: the inputs as a list, and flag_single
_sanitize_confounds(confounds_raw) ==
    LET flag_single == confounds_raw.type = "str" \/ confounds_raw.type = "DataFrame"
    IN  [confounds_raw |-> IF flag_single THEN <<confounds_raw.single>> ELSE confounds_raw.list,
         flag_single |-> flag_single]

-----------------------------------------------------------------------------
(* The Confounds object.                                                   *)

\* an attribute that __init__ did not set
Unset == "<unset>"

UnsetInt == -1

NoObj == [class |-> "none"]

\* self.<name>, or the AttributeError of an attribute never set
Attr(value, unset, name, loaded) ==
    IF value = unset THEN Raise("AttributeError", name) ELSE loaded

\* one `if <category> in self.strategy:` block of _load_single: the
\* running table with the category's columns appended
Block(confounds, self, category, loaded) ==
    IF ~confounds.ok THEN confounds
    ELSE IF category \notin Range(self.strategy) THEN confounds
    ELSE IF ~loaded.ok THEN loaded
    ELSE Ok(Concat(confounds.value, loaded.value))

\* the loader _load_single calls for a category
Loader(self, df, category) ==
    CASE category = "motion" ->
             Attr(self.motion, Unset, "motion",
                  Attr(self.n_motion, UnsetInt, "n_motion",
                       _load_motion(df, self.motion, self.n_motion)))
      [] category = "high_pass" -> _load_high_pass(df)
      [] category = "wm_csf" -> Attr(self.wm_csf, Unset, "wm_csf", _load_wm_csf(df, self.wm_csf))
      [] category = "global" ->
             Attr(self.global_signal, Unset, "global_signal",
                  _load_global(df, self.global_signal))
      [] category = "compcor" ->
             Attr(self.compcor, Unset, "compcor",
                  Attr(self.n_compcor, UnsetInt, "n_compcor",
                       _load_compcor(df, self.compcor, self.n_compcor)))

\* the five blocks of _load_single on the raw table, in source order
Blocks(self, df) ==
    Block(Block(Block(Block(Block(Ok(EmptyFrame),
                                  self, "motion", Loader(self, df, "motion")),
                            self, "high_pass", Loader(self, df, "high_pass")),
                      self, "wm_csf", Loader(self, df, "wm_csf")),
                self, "global", Loader(self, df, "global")),
          self, "compcor", Loader(self, df, "compcor"))

\* the rest of _load_single once _confounds2df has returned or raised
LoadRaw(self, raw) == IF ~raw.ok THEN raw ELSE Blocks(self, raw.value)

\* _load_single were it to walk self.strategy instead of the five blocks
RECURSIVE LoadInStrategyOrder(_, _, _, _)
LoadInStrategyOrder(confounds, self, df, i) ==
    IF i > Len(self.strategy) THEN confounds
    ELSE LoadInStrategyOrder(
             Block(confounds, self, self.strategy[i], Loader(self, df, self.strategy[i])),
             self, df, i + 1)

LoadRawInStrategyOrder(self, raw) ==
    IF ~raw.ok THEN raw ELSE LoadInStrategyOrder(Ok(EmptyFrame), self, raw.value, 1)

_load_single_in_strategy_order(self, confounds_raw) ==
    LoadRawInStrategyOrder(self, _confounds2df(confounds_raw))

_load_single(self, confounds_raw) == LoadRaw(self, _confounds2df(confounds_raw))

\* Confounds.__init__: the object built, or the exception of the validation
__init__(strategy, motion, n_motion, wm_csf, global_signal, compcor, n_compcor) ==
    LET sane == _sanitize_strategy(strategy)
    IN  IF sane.ok
        THEN [ok |-> TRUE, error |-> "", detail |-> "",
              self |-> [class |-> "Confounds", strategy |-> strategy.items,
                        motion |-> motion, n_motion |-> n_motion, wm_csf |-> wm_csf,
                        global_signal |-> global_signal, compcor |-> compcor,
                        n_compcor |-> n_compcor]]
        ELSE [ok |-> FALSE, error |-> sane.error, detail |-> sane.detail, self |-> NoObj]

\* the preset classes P2, P6, P9, P24 and P36: their __init__ sets the
\* attributes of their strategy and leaves the others unset
Preset(class) ==
    LET blank == [class |-> class, strategy |-> <<>>, motion |-> Unset, n_motion |-> UnsetInt,
                  wm_csf |-> Unset, global_signal |-> Unset, compcor |-> Unset,
                  n_compcor |-> UnsetInt]
    IN  CASE class = "P2" ->
                 [blank EXCEPT !.strategy = <<"high_pass", "wm_csf">>, !.wm_csf = "basic"]
          [] class = "P6" ->
                 [blank EXCEPT !.strategy = <<"high_pass", "motion">>, !.motion = "basic",
                               !.n_motion = 0]
          [] class = "P9" ->
                 [blank EXCEPT !.strategy = <<"high_pass", "motion", "wm_csf", "global">>,
                               !.motion = "basic", !.n_motion = 0, !.wm_csf = "basic",
                               !.global_signal = "basic"]
          [] class = "P24" ->
                 [blank EXCEPT !.strategy = <<"high_pass", "motion">>, !.motion = "full",
                               !.n_motion = 0]
          [] class = "P36" ->
                 [blank EXCEPT !.strategy = <<"high_pass", "motion", "wm_csf", "global">>,
                               !.motion = "full", !.n_motion = 0, !.wm_csf = "full",
                               !.global_signal = "full"]

-----------------------------------------------------------------------------
(* The arguments the model draws.                                          *)

\* the supported names and one that is not
Names == Range(all_confounds) \cup {"bogus"}

\* strategy=["motion", "high_pass", "wm_csf"] in the signature of __init__
DefaultStrategy == <<"motion", "high_pass", "wm_csf">>

StrategyArgs ==
    {StrategyArg("list", items) :
        items \in SeqsUpTo(Names, MaxStrategyLen) \cup {DefaultStrategy, all_confounds}}
    \cup {StrategyArg("str", <<>>), StrategyArg("tuple", <<>>), StrategyArg("NoneType", <<>>)}

Modes == {"basic", "derivatives", "power2", "full"}

Variants == {"anat", "temp", "full"}

\* the defaults of the signature of __init__
Defaults ==
    [motion |-> "full", n_motion |-> 0, wm_csf |-> "basic", global_signal |-> "basic",
     compcor |-> "anat", n_compcor |-> DefaultNCompcor]

\* keyword arguments: those of motion and of compcor given together, or
\* wm_csf alone, or global_signal alone; the others defaulted
Configs ==
    {[Defaults EXCEPT !.motion = m, !.n_motion = n, !.compcor = c, !.n_compcor = k] :
        m \in Modes, n \in 0..MaxNMotion, c \in Variants,
        k \in (0..MaxNCompcor) \cup {DefaultNCompcor}}
    \cup {[Defaults EXCEPT !.wm_csf = m] : m \in Modes}
    \cup {[Defaults EXCEPT !.global_signal = m] : m \in Modes}

\* the calls of the constructor: any strategy with the default keyword
\* arguments, or any keyword arguments with every category selected
ConstructArgs ==
    {[strategy |-> strategy, cfg |-> Defaults] : strategy \in StrategyArgs}
    \cup {[strategy |-> StrategyArg("list", all_confounds), cfg |-> cfg] : cfg \in Configs}

Presets == {"P2", "P6", "P9", "P24", "P36"}

Inputs == {FrameInput("confounds_df"), PathInput(NiiPath)}

\* the objects that the constructors of the model can build
Objects ==
    {made.self : made \in {m \in {__init__(a.strategy, a.cfg.motion, a.cfg.n_motion,
                                            a.cfg.wm_csf, a.cfg.global_signal, a.cfg.compcor,
                                            a.cfg.n_compcor) : a \in ConstructArgs} : m.ok}}
    \cup {Preset(class) : class \in Presets}

LoadArgs ==
    {SingleArg(input) : input \in Inputs}
    \cup {ListArg(inputs) : inputs \in SeqsUpTo(Inputs, MaxInputs)}

-----------------------------------------------------------------------------
(* Loading.                                                                *)

\* self._load_single(file) for the objects and inputs of the model,
\* tabulated once
LoadSingleTable == [self \in Objects, file \in Inputs |-> _load_single(self, file)]

\* the value of a Python name that holds one table or a list of tables
OneTable(df) == [kind |-> "DataFrame", tables |-> <<df>>]

TableList(dfs) == [kind |-> "list", tables |-> dfs]

NoValue == [kind |-> "none", tables |-> <<>>]

\* the loop of load over the files: confounds_out and the number of files
\* handed to _load_single, or the first exception
RECURSIVE LoadLoop(_, _, _, _)
RECURSIVE LoopStep(_, _, _, _, _)
LoopStep(self, files, i, confounds_out, one) ==
    IF one.ok THEN LoadLoop(self, files, i + 1, Append(confounds_out, one.value))
    ELSE [ok |-> FALSE, out |-> confounds_out, calls |-> i, error |-> one.error,
          detail |-> one.detail]

LoadLoop(self, files, i, confounds_out) ==
    IF i > Len(files)
    THEN [ok |-> TRUE, out |-> confounds_out, calls |-> Len(files), error |-> "", detail |-> ""]
    ELSE LoopStep(self, files, i, confounds_out, LoadSingleTable[self, files[i]])

\* the files handed to _load_single
Handed(files, calls) == {files[i] : i \in 1..calls}

\* the end of load were it to skip the unwrapping of a single input
Finish_always_list(attribute, files, flag_single, looped) ==
    IF looped.ok
    THEN [ok |-> TRUE, value |-> TableList(looped.out), error |-> "", detail |-> "",
          attribute |-> TableList(looped.out), touched |-> Handed(files, looped.calls)]
    ELSE [ok |-> FALSE, value |-> NoValue, error |-> looped.error, detail |-> looped.detail,
          attribute |-> attribute, touched |-> Handed(files, looped.calls)]

\* the end of load were each table stored in self.confounds_ as it is loaded
Finish_store_as_loaded(attribute, files, flag_single, looped) ==
    IF looped.ok
    THEN [ok |-> TRUE, error |-> "", detail |-> "",
          value |-> IF flag_single THEN OneTable(looped.out[1]) ELSE TableList(looped.out),
          attribute |-> IF flag_single THEN OneTable(looped.out[1]) ELSE TableList(looped.out),
          touched |-> Handed(files, looped.calls)]
    ELSE [ok |-> FALSE, value |-> NoValue, error |-> looped.error, detail |-> looped.detail,
          attribute |-> IF looped.out = <<>> THEN attribute ELSE TableList(looped.out),
          touched |-> Handed(files, looped.calls)]

\* the end of load, after the loop: the unwrapping of a single output, the
\* assignment of self.confounds_ and the return; or the exception of the
\* loop, which leaves the attribute as it was
Finish(attribute, files, flag_single, looped) ==
    IF looped.ok
    THEN [ok |-> TRUE, error |-> "", detail |-> "",
          value |-> IF flag_single THEN OneTable(looped.out[1]) ELSE TableList(looped.out),
          attribute |-> IF flag_single THEN OneTable(looped.out[1]) ELSE TableList(looped.out),
          touched |-> Handed(files, looped.calls)]
    ELSE [ok |-> FALSE, value |-> NoValue, error |-> looped.error, detail |-> looped.detail,
          attribute |-> attribute, touched |-> Handed(files, looped.calls)]

\* load once _sanitize_confounds has returned
LoadFiles(self, attribute, files, flag_single) ==
    Finish(attribute, files, flag_single, LoadLoop(self, files, 1, <<>>))

LoadSane(self, attribute, sane) ==
    LoadFiles(self, attribute, sane.confounds_raw, sane.flag_single)

\* Confounds.load: what it returns or raises, self.confounds_ after it,
\* and the inputs it handed to _load_single
load(self, attribute, confounds_raw) ==
    LoadSane(self, attribute, _sanitize_confounds(confounds_raw))

-----------------------------------------------------------------------------
(* The state machine: one name bound to a Confounds object, its attribute  *)
(* confounds_, and the outcome of the last call.                           *)

NoRet == [op |-> "none"]

NoCall == [fn |-> "none"]

Init ==
    /\ obj = NoObj
    /\ confounds_ = NoValue
    /\ ret = NoRet
    /\ touched = {}
    /\ call = NoCall

\* conf = Confounds(strategy, ...): the name is bound when no exception
\* is raised
Construct(strategy, cfg) ==
    /\ obj = NoObj
    /\ \E made \in {__init__(strategy, cfg.motion, cfg.n_motion, cfg.wm_csf,
                                cfg.global_signal, cfg.compcor, cfg.n_compcor)} :
           /\ obj' = made.self
           /\ ret' = [op |-> "init", arg |-> strategy, ok |-> made.ok,
                      error |-> made.error, detail |-> made.detail, value |-> NoValue]
    /\ UNCHANGED <<confounds_, touched, call>>

\* conf = P2(), P6(), ...
ConstructPreset(class) ==
    /\ obj = NoObj
    /\ obj' = Preset(class)
    /\ ret' = [op |-> "init", arg |-> StrategyArg("list", Preset(class).strategy),
               ok |-> TRUE, error |-> "", detail |-> "", value |-> NoValue]
    /\ UNCHANGED <<confounds_, touched, call>>

\* conf.load(confounds_raw)
Load(confounds_raw) ==
    /\ obj # NoObj
    /\ \E done \in {load(obj, confounds_, confounds_raw)} :
           /\ confounds_' = done.attribute
           /\ touched' = touched \cup done.touched
           /\ ret' = [op |-> "load", arg |-> confounds_raw, ok |-> done.ok,
                      error |-> done.error, detail |-> done.detail, value |-> done.value]
    /\ UNCHANGED <<obj, call>>

Next ==
    \/ \E a \in ConstructArgs : Construct(a.strategy, a.cfg)
    \/ \E class \in Presets : ConstructPreset(class)
    \/ \E confounds_raw \in LoadArgs : Load(confounds_raw)

Spec == Init /\ [][Next]_vars

-----------------------------------------------------------------------------
(* _add_suffix on its own: a list of base names and a model are drawn,    *)
(* and the function is applied.                                            *)

BaseNames == {"csf", "white_matter", "trans_x"}

SuffixModels == Modes \cup {"none"}

InitAddSuffix ==
    /\ obj = NoObj
    /\ confounds_ = NoValue
    /\ ret = NoRet
    /\ touched = {}
    /\ call \in {[fn |-> "_add_suffix", params |-> params, model |-> model,
                  done |-> FALSE, out |-> <<>>] :
                    params \in SeqsUpTo(BaseNames, MaxLen), model \in SuffixModels}

CallAddSuffix ==
    /\ call.fn = "_add_suffix"
    /\ ~call.done
    /\ call' = [call EXCEPT !.done = TRUE, !.out = _add_suffix(call.params, call.model)]
    /\ UNCHANGED <<obj, confounds_, ret, touched>>

NextAddSuffix == CallAddSuffix

SpecAddSuffix == InitAddSuffix /\ [][NextAddSuffix]_vars

-----------------------------------------------------------------------------
(* _label_compcor on its own: a table that holds some of the component    *)
(* columns, a prefix and a bound are drawn, and the function is applied.   *)

TwoDigits == <<"00", "01", "02", "03", "04", "05", "06", "07", "08", "09">>

\* the component columns of the indexes of S from nn down to 0
RECURSIVE ComponentColumns(_, _, _)
ComponentColumns(prefix, S, nn) ==
    IF nn < 0 THEN <<>>
    ELSE (IF nn \in S THEN <<prefix \o "_comp_cor_" \o TwoDigits[nn + 1]>> ELSE <<>>)
         \o ComponentColumns(prefix, S, nn - 1)

\* a table of one volume with the anatomical components of A and the
\* temporal components of T
ComponentTable(A, T) ==
    DataFrame(<<"csf">> \o ComponentColumns("a", A, MaxIndex) \o <<"cosine00">>
                  \o ComponentColumns("t", T, MaxIndex),
              1, {})

InitLabelCompcor ==
    /\ obj = NoObj
    /\ confounds_ = NoValue
    /\ ret = NoRet
    /\ touched = {}
    /\ call \in {[fn |-> "_label_compcor", df |-> ComponentTable(A, T),
                  compcor_suffix |-> prefix, n_compcor |-> n, done |-> FALSE,
                  cols |-> <<>>, warned |-> <<>>] :
                    A \in SUBSET (0..MaxIndex), T \in SUBSET (0..MaxIndex),
                    prefix \in {"a", "t"}, n \in (0..MaxNCompcor) \cup {DefaultNCompcor}}

CallLabelCompcor ==
    /\ call.fn = "_label_compcor"
    /\ ~call.done
    /\ LET labelled == _label_compcor(call.df, call.compcor_suffix, call.n_compcor)
       IN  call' = [call EXCEPT !.done = TRUE, !.cols = labelled.cols,
                                !.warned = labelled.warned]
    /\ UNCHANGED <<obj, confounds_, ret, touched>>

NextLabelCompcor == CallLabelCompcor

SpecLabelCompcor == InitLabelCompcor /\ [][NextLabelCompcor]_vars

-----------------------------------------------------------------------------
(* The properties.                                                         *)

\* the vocabulary of category names, and the fixed order of the categories
Vocabulary == {"motion", "high_pass", "wm_csf", "global", "compcor"}

CategoryOrder == <<"motion", "high_pass", "wm_csf", "global", "compcor">>

NoDuplicates(columns) ==
    \A i, j \in DOMAIN columns : i # j => columns[i] # columns[j]

\* the inputs of an argument of load, in order
ArgInputs(arg) == IF arg.type = "list" THEN arg.list ELSE <<arg.single>>

\* the raw table of an input
RawTable(input) == _confounds2df(input).value

Loaded == ret.op = "load" /\ ret.ok

\* C1: a Confounds object constructed with an empty strategy fails with
\* a ValueError at construction, so that no object with an empty strategy
\* exists.
C1_EmptyStrategyRejected ==
    /\ (ret.op = "init" /\ ret.arg.type = "list" /\ ret.arg.items = <<>>)
           => (~ret.ok /\ ret.error = "ValueError")
    /\ obj # NoObj => obj.strategy # <<>>

\* C2: a strategy that is not a list, or a list that holds a name outside
\* the vocabulary at any position, is refused with a ValueError by the
\* constructor: no object is bound, no input has been handed to
\* _load_single and nothing is stored; and no object holds such a name.
C2_InvalidStrategyRejected ==
    /\ (/\ ret.op = "init"
        /\ \/ ret.arg.type # "list"
           \/ \E i \in DOMAIN ret.arg.items : ret.arg.items[i] \notin Vocabulary)
           => /\ ~ret.ok
              /\ ret.error = "ValueError"
              /\ obj = NoObj
              /\ touched = {}
              /\ confounds_ = NoValue
    /\ obj # NoObj => \A i \in DOMAIN obj.strategy : obj.strategy[i] \in Vocabulary
    /\ obj = NoObj => touched = {}

C2_Witness ==
    /\ ret.op = "init"
    /\ ret.arg = StrategyArg("list", <<"motion", "bogus">>)
    /\ ~ret.ok
    /\ obj = NoObj

\* the columns a category contributes: those of its loader when the
\* category is in the strategy, none otherwise
CategoryColumns(self, df, category) ==
    IF category \in Range(self.strategy) THEN Loader(self, df, category).value.columns
    ELSE <<>>

RECURSIVE ColumnsFrom(_, _, _)
ColumnsFrom(self, df, k) ==
    IF k > Len(CategoryOrder) THEN <<>>
    ELSE CategoryColumns(self, df, CategoryOrder[k]) \o ColumnsFrom(self, df, k + 1)

\* C3: the columns of every loaded table are the columns of the categories
\* of the strategy, concatenated in the order motion, high_pass, wm_csf,
\* global, compcor, each category once, whatever the order and the
\* repetitions of the strategy list; strategy [high_pass, motion] with
\* motion=basic yields the six motion columns and the two cosine columns.
C3_ColumnsInCategoryOrder ==
    Loaded =>
        /\ \A i \in DOMAIN ret.value.tables :
              ret.value.tables[i].columns = ColumnsFrom(obj, RawTable(ArgInputs(ret.arg)[i]), 1)
        /\ (obj.class = "P6" /\ ret.arg = SingleArg(FrameInput("confounds_df")))
              => ret.value.tables[1].columns =
                     <<"trans_x", "trans_y", "trans_z", "rot_x", "rot_y", "rot_z",
                       "cosine00", "cosine01">>

C3_Witness ==
    /\ Loaded
    /\ obj.strategy = <<"wm_csf", "high_pass">>
    /\ ret.arg = SingleArg(FrameInput("confounds_df"))
    /\ ret.value.tables[1].columns = <<"cosine00", "cosine01", "csf", "white_matter">>

\* C4: a successful load of a single input returns one table, the one
\* _load_single makes of that input; a successful load of a list of n
\* inputs returns a list of n tables, the i-th being the one _load_single
\* makes of the i-th input; and confounds_ is the value returned.
C4_SingleOrList ==
    Loaded =>
        /\ confounds_ = ret.value
        /\ Len(ret.value.tables) = Len(ArgInputs(ret.arg))
        /\ ret.value.kind = (IF ret.arg.type = "list" THEN "list" ELSE "DataFrame")
        /\ \A i \in DOMAIN ret.value.tables :
              /\ LoadSingleTable[obj, ArgInputs(ret.arg)[i]].ok
              /\ ret.value.tables[i] = LoadSingleTable[obj, ArgInputs(ret.arg)[i]].value

C4_Witness ==
    /\ Loaded
    /\ ret.arg = ListArg(<<PathInput(NiiPath), FrameInput("confounds_df")>>)
    /\ ret.value.tables[1] # ret.value.tables[2]
    /\ confounds_.kind = "list"

\* C5: a load in which a loader fails raises the error and returns
\* nothing, and leaves confounds_ as it was; a load that succeeds stores
\* what it returns.  Hence confounds_ is always the value returned by the
\* most recent successful load, and unset when there was none.
C5_FailedLoadLeavesAttribute ==
    [][ret'.op = "load" =>
          IF ret'.ok THEN confounds_' = ret'.value
          ELSE /\ confounds_' = confounds_
               /\ ret'.value = NoValue
               /\ ret'.error # ""]_vars

\* a list whose second input fails, after an earlier load has succeeded
C5_Witness ==
    /\ ret.op = "load"
    /\ ~ret.ok
    /\ confounds_ # NoValue
    /\ ret.arg.type = "list"
    /\ Len(ret.arg.list) = 2
    /\ LoadSingleTable[obj, ret.arg.list[1]].ok

\* the suffixes of a model, in the order the names of one base take
ModelSuffixes(model) ==
    CASE model = "derivatives" -> <<"_derivative1">>
      [] model = "power2" -> <<"_power2">>
      [] model = "full" -> <<"_derivative1", "_power2", "_derivative1_power2">>
      [] OTHER -> <<>>

\* C6, as stated: the output of _add_suffix is all the bases, then the
\* names of the first suffix for every base, then those of the second
\* suffix, then those of the third (grouped by suffix).
C6_GroupedBySuffix ==
    (call.fn = "_add_suffix" /\ call.done) =>
        LET B == call.params
            suffixes == ModelSuffixes(call.model)
        IN  /\ Len(call.out) = Len(B) * (1 + Len(suffixes))
            /\ \A i \in DOMAIN B : call.out[i] = B[i]
            /\ \A j \in DOMAIN suffixes : \A i \in DOMAIN B :
                  call.out[Len(B) + (j - 1) * Len(B) + i] = B[i] \o suffixes[j]

\* C6, amended: the output of _add_suffix is all the bases in order, then
\* for each base in order the names of that base together: derivative1,
\* power2, derivative1_power2, as the model has them (grouped by base).
C6_GroupedByBase ==
    (call.fn = "_add_suffix" /\ call.done) =>
        LET B == call.params
            suffixes == ModelSuffixes(call.model)
        IN  /\ Len(call.out) = Len(B) * (1 + Len(suffixes))
            /\ \A i \in DOMAIN B : call.out[i] = B[i]
            /\ \A i \in DOMAIN B : \A j \in DOMAIN suffixes :
                  call.out[Len(B) + (i - 1) * Len(suffixes) + j] = B[i] \o suffixes[j]

C6_Witness ==
    /\ call.fn = "_add_suffix"
    /\ call.done
    /\ call.model = "full"
    /\ call.params = <<"csf", "white_matter">>
    /\ call.out = <<"csf", "white_matter", "csf_derivative1", "csf_power2",
                    "csf_derivative1_power2", "white_matter_derivative1",
                    "white_matter_power2", "white_matter_derivative1_power2">>

\* the candidates of _label_compcor: index 0 to n inclusive
Candidates(prefix, n) == [i \in 1..(n + 1) |-> prefix \o "_comp_cor_" \o TwoDigits[i]]

IsColumnOf(df, name) == name \in Range(df.columns)

\* the candidates that are columns of df, or those that are not, in order
RECURSIVE Keep(_, _, _, _)
Keep(candidates, df, present, i) ==
    IF i > Len(candidates) THEN <<>>
    ELSE (IF IsColumnOf(df, candidates[i]) = present THEN <<candidates[i]>> ELSE <<>>)
         \o Keep(candidates, df, present, i + 1)

\* C7: _label_compcor considers the n_compcor + 1 candidates of index 0 to
\* n_compcor, returns those that are columns of the table in ascending
\* index order and warns once about each of the others; with n_compcor = 6
\* and a table that holds the indexes 0 to 3 it returns four columns and
\* warns about the indexes 4, 5 and 6.
C7_LabelCompcor ==
    (call.fn = "_label_compcor" /\ call.done) =>
        LET candidates == Candidates(call.compcor_suffix, call.n_compcor)
        IN  /\ call.cols = Keep(candidates, call.df, TRUE, 1)
            /\ call.warned = Keep(candidates, call.df, FALSE, 1)
            /\ Len(call.cols) + Len(call.warned) = call.n_compcor + 1
            /\ (/\ call.n_compcor = 6
                /\ \A nn \in 0..6 :
                      IsColumnOf(call.df, candidates[nn + 1]) <=> nn \in 0..3)
                  => /\ Len(call.cols) = 4
                     /\ call.warned = SubSeq(candidates, 5, 7)

C7_Witness ==
    /\ call.fn = "_label_compcor"
    /\ call.done
    /\ call.n_compcor = 6
    /\ call.compcor_suffix = "a"
    /\ call.cols = <<"a_comp_cor_00", "a_comp_cor_01", "a_comp_cor_02", "a_comp_cor_03">>
    /\ call.warned = <<"a_comp_cor_04", "a_comp_cor_05", "a_comp_cor_06">>

\* the component columns of a table
ComponentCount(df) ==
    Cardinality({i \in DOMAIN df.columns : IsSubstring("_comp_cor_", df.columns[i])})

\* C8: with compcor anat or temp and a raw table that holds every
\* candidate component column, the loaded table has exactly n_compcor
\* component columns.
C8_NCompcorIsCount ==
    (/\ Loaded
     /\ ret.arg.type # "list"
     /\ "compcor" \in Range(obj.strategy)
     /\ obj.compcor \in {"anat", "temp"}
     /\ \A nn \in 0..obj.n_compcor :
           IsColumnOf(RawTable(ret.arg.single),
                      (IF obj.compcor = "anat" THEN "a" ELSE "t") \o "_comp_cor_"
                          \o TwoDigits[nn + 1]))
        => ComponentCount(ret.value.tables[1]) = obj.n_compcor

\* C9: every category loader either fails or returns a table with as many
\* rows as the raw table, the motion loader with PCA on a table with
\* missing values included.
C9_LoadersKeepRows ==
    ret.op = "load" =>
        \A i \in DOMAIN ArgInputs(ret.arg) : \A k \in DOMAIN CategoryOrder :
            LET raw == _confounds2df(ArgInputs(ret.arg)[i])
                loaded == Loader(obj, raw.value, CategoryOrder[k])
            IN  (raw.ok /\ loaded.ok) => loaded.value.nrows = raw.value.nrows

\* C10: a table loaded from a raw table whose column names are distinct
\* holds no column name twice.
C10_NoColumnTwice ==
    Loaded =>
        \A i \in DOMAIN ret.value.tables :
            NoDuplicates(RawTable(ArgInputs(ret.arg)[i]).columns)
                => NoDuplicates(ret.value.tables[i].columns)

\* every category, motion reduced by PCA, both kinds of components
C10_Witness ==
    /\ Loaded
    /\ obj.strategy = all_confounds
    /\ obj.n_motion > 0
    /\ obj.compcor = "full"
    /\ NoDuplicates(RawTable(ArgInputs(ret.arg)[1]).columns)
    /\ \E i, j \in DOMAIN ret.value.tables[1].columns :
          /\ ret.value.tables[1].columns[i] = "motion_pca_1"
          /\ ret.value.tables[1].columns[j] = "t_comp_cor_00"

====
